---- MODULE Spec2Model ----
(***************************************************************************)
(* A model of solve.py, the entropy-driven Wordle solver.                  *)
(*                                                                         *)
(* Words are sequences of one-character strings, a clue is a sequence of   *)
(* <<letter, status>> pairs (the tuples get_clue builds), positions are    *)
(* 1-based (Python's index i is position i+1 here).                        *)
(*                                                                         *)
(* Four specifications share the variables:                                *)
(*   Spec       a solve() or solve_interactive() session                   *)
(*   SpecState  a WordleState and a pool under arbitrary add_clue calls     *)
(*   SpecSound  a WordleState fed the clues of one hidden solution         *)
(*   SpecPure   get_clue and entropy applied to drawn inputs               *)
(***************************************************************************)
EXTENDS Integers, Sequences, FiniteSets, TLC

VARIABLES
    mode,                     \* "batch" (solve), "interactive", "state", "sound", "pure"
    guess_all_words,          \* WordleSolver.guess_all_words
    english_words_lower_set,  \* the dictionary the module imports
    word,                     \* solve's target / the word the user has in mind
    user,                     \* interactive: "honest" clues of word, or "any" clue
    total_word_set,           \* WordleSolver.total_word_set, a list
    words,                    \* WordleSolver.words, the candidate pool
    letters,                  \* WordleState.letters, one set per position
    correct_letters,          \* WordleState.correct_letters
    guess,                    \* the current guess
    iteration,                \* solve's counter; SpecState/SpecSound: add_clue calls made
    pc,                       \* "start", "loop", "next", "done"
    outcome,                  \* "Active", "Solved", "Impossible" or the exception raised
    clue,                     \* the clue of the last add_clue call
    raised,                   \* what the last add_clue call raised ("none" if nothing)
    applied,                  \* how many tuples of that clue were applied
    words_before,             \* the pool before the last add_clue + update_words pass
    order,                    \* the order in which the last next_guess enumerated guesses
    entropy_calls,            \* entropy() calls made by the last step
    solution,                 \* what the session names as the solution (<<>>: nothing)
    ever_incorrect,           \* letters an applied tuple has marked Incorrect
    clues_seen,               \* the clues add_clue has applied in full
    result                    \* SpecPure: the value the applied function returned

vars == <<mode, guess_all_words, english_words_lower_set, word, user, total_word_set,
          words, letters, correct_letters, guess, iteration, pc, outcome, clue, raised,
          applied, words_before, order, entropy_calls, solution, ever_incorrect, clues_seen,
          result>>

(***************************************************************************)
(* Bounds and sample inputs                                                *)
(***************************************************************************)
MaxDict == 3      \* words in english_words_lower_set
MaxClues == 2     \* add_clue calls in SpecState
MaxGuesses == 3   \* guesses in SpecSound

WordLen == 5

slate == <<"s", "l", "a", "t", "e">>
stare == <<"s", "t", "a", "r", "e">>
share == <<"s", "h", "a", "r", "e">>
shave == <<"s", "h", "a", "v", "e">>
shake == <<"s", "h", "a", "k", "e">>
spare == <<"s", "p", "a", "r", "e">>
shark == <<"s", "h", "a", "r", "k">>
steal == <<"s", "t", "e", "a", "l">>
tests == <<"t", "e", "s", "t", "s">>
eerie == <<"e", "e", "r", "i", "e">>
cant  == <<"c", "a", "n", "'", "t">>
tea   == <<"t", "e", "a">>
skate == <<"s", "k", "a", "t", "e">>
scale == <<"s", "c", "a", "l", "e">>
spate == <<"s", "p", "a", "t", "e">>
fuzzy == <<"f", "u", "z", "z", "y">>

\* The words dictionaries are drawn from: candidates, a word with an
\* apostrophe and a word of another length.
Lexicon == {slate, stare, share, shave, shake, spare, shark, cant, tea}

\* The words solutions and guesses are drawn from outside a session: the
\* lexicon and words that repeat a letter.
SampleWords == Lexicon \cup {steal, tests, eerie}

\* The words entropy's pools are drawn from, and its guesses: fuzzy shares no
\* letter with a pool word.
PoolWords == {slate, stare, share, shave, shake, spare, skate, scale, spate}

GuessWords == SampleWords \cup {fuzzy}

Range(s) == {s[i] : i \in DOMAIN s}

Perms(S) == {f \in [1..Cardinality(S) -> S] : \A i, j \in DOMAIN f : f[i] = f[j] => i = j}

(***************************************************************************)
(* Module-level functions                                                  *)
(***************************************************************************)
lowercase_letters ==
    {"a", "b", "c", "d", "e", "f", "g", "h", "i", "j", "k", "l", "m",
     "n", "o", "p", "q", "r", "s", "t", "u", "v", "w", "x", "y", "z"}

contains_only(w, allowable_characters) == \A i \in DOMAIN w : w[i] \in allowable_characters

all_candidate_words(english) ==
    {w \in english : Len(w) = WordLen /\ contains_only(w, lowercase_letters)}

Incorrect == "Incorrect"
PartialMatch == "PartialMatch"
Correct == "Correct"
TileStatus == {Incorrect, PartialMatch, Correct}

\* get_clue's assertion: the lengths differ.
get_clue_raises(w, g) == Len(w) # Len(g)

get_clue_word_in_guess(w, g) ==
    [i \in 1..Len(g) |->
        <<g[i], IF w[i] = g[i] THEN Correct
                ELSE IF w[i] \in Range(g) THEN PartialMatch
                ELSE Incorrect>>]

\* get_clue(word, guess), for words of equal length.
get_clue(w, g) ==
    [i \in 1..Len(g) |->
        <<g[i], IF w[i] = g[i] THEN Correct
                ELSE IF g[i] \in Range(w) THEN PartialMatch
                ELSE Incorrect>>]

(***************************************************************************)
(* WordleState                                                             *)
(***************************************************************************)
\* WordleState.__init__
NewState == [letters |-> [i \in 1..WordLen |-> lowercase_letters], correct_letters |-> {}]

\* One pass of add_clue's loop body on tuple c at position i.  st carries the
\* state, what was raised, how many tuples were applied and whether the local
\* name l is bound: both assertion messages format l, which only the
\* Incorrect branch's for loop binds, so a failing assertion raises
\* UnboundLocalError instead of AssertionError while l is unbound.  The
\* PartialMatch and Correct branches index self.letters[i], which has WordLen
\* entries.
add_tuple_partial_everywhere(st, i, c) ==
    LET letter == c[1]
        status == c[2]
        failure == IF st.l_bound THEN "AssertionError" ELSE "UnboundLocalError"
    IN  IF status = Incorrect THEN
            IF letter \in st.correct_letters
            THEN [st EXCEPT !.raised = failure]
            ELSE [st EXCEPT !.letters = [p \in DOMAIN st.letters |-> st.letters[p] \ {letter}],
                            !.l_bound = TRUE,
                            !.applied = @ + 1]
        ELSE IF i > Len(st.letters) THEN
            [st EXCEPT !.raised = "IndexError"]
        ELSE IF status = PartialMatch THEN
            [st EXCEPT !.letters = [p \in DOMAIN st.letters |-> st.letters[p] \ {letter}],
                       !.correct_letters = @ \cup {letter},
                       !.applied = @ + 1]
        ELSE IF status = Correct THEN
            IF letter \notin st.letters[i]
            THEN [st EXCEPT !.raised = failure]
            ELSE [st EXCEPT !.letters[i] = {letter},
                            !.correct_letters = @ \cup {letter},
                            !.applied = @ + 1]
        ELSE [st EXCEPT !.applied = @ + 1]

add_tuple_unchecked(st, i, c) ==
    LET letter == c[1]
        status == c[2]
        failure == IF st.l_bound THEN "AssertionError" ELSE "UnboundLocalError"
    IN  IF status = Incorrect THEN
            [st EXCEPT !.letters = [p \in DOMAIN st.letters |-> st.letters[p] \ {letter}],
                       !.l_bound = TRUE,
                       !.applied = @ + 1]
        ELSE IF i > Len(st.letters) THEN
            [st EXCEPT !.raised = "IndexError"]
        ELSE IF status = PartialMatch THEN
            [st EXCEPT !.letters[i] = @ \ {letter},
                       !.correct_letters = @ \cup {letter},
                       !.applied = @ + 1]
        ELSE IF status = Correct THEN
            IF letter \notin st.letters[i]
            THEN [st EXCEPT !.raised = failure]
            ELSE [st EXCEPT !.letters[i] = {letter},
                            !.correct_letters = @ \cup {letter},
                            !.applied = @ + 1]
        ELSE [st EXCEPT !.applied = @ + 1]

add_tuple_incorrect_here(st, i, c) ==
    LET letter == c[1]
        status == c[2]
        failure == IF st.l_bound THEN "AssertionError" ELSE "UnboundLocalError"
    IN  IF status = Incorrect THEN
            IF letter \in st.correct_letters
            THEN [st EXCEPT !.raised = failure]
            ELSE [st EXCEPT !.letters[i] = @ \ {letter},
                            !.l_bound = TRUE,
                            !.applied = @ + 1]
        ELSE IF i > Len(st.letters) THEN
            [st EXCEPT !.raised = "IndexError"]
        ELSE IF status = PartialMatch THEN
            [st EXCEPT !.letters[i] = @ \ {letter},
                       !.correct_letters = @ \cup {letter},
                       !.applied = @ + 1]
        ELSE IF status = Correct THEN
            IF letter \notin st.letters[i]
            THEN [st EXCEPT !.raised = failure]
            ELSE [st EXCEPT !.letters[i] = {letter},
                            !.correct_letters = @ \cup {letter},
                            !.applied = @ + 1]
        ELSE [st EXCEPT !.applied = @ + 1]

add_tuple_correct_unchecked(st, i, c) ==
    LET letter == c[1]
        status == c[2]
        failure == IF st.l_bound THEN "AssertionError" ELSE "UnboundLocalError"
    IN  IF status = Incorrect THEN
            IF letter \in st.correct_letters
            THEN [st EXCEPT !.raised = failure]
            ELSE [st EXCEPT !.letters = [p \in DOMAIN st.letters |-> st.letters[p] \ {letter}],
                            !.l_bound = TRUE,
                            !.applied = @ + 1]
        ELSE IF i > Len(st.letters) THEN
            [st EXCEPT !.raised = "IndexError"]
        ELSE IF status = PartialMatch THEN
            [st EXCEPT !.letters[i] = @ \ {letter},
                       !.correct_letters = @ \cup {letter},
                       !.applied = @ + 1]
        ELSE IF status = Correct THEN
            [st EXCEPT !.letters[i] = {letter},
                       !.correct_letters = @ \cup {letter},
                       !.applied = @ + 1]
        ELSE [st EXCEPT !.applied = @ + 1]

add_tuple(st, i, c) ==
    LET letter == c[1]
        status == c[2]
        failure == IF st.l_bound THEN "AssertionError" ELSE "UnboundLocalError"
    IN  IF status = Incorrect THEN
            IF letter \in st.correct_letters
            THEN [st EXCEPT !.raised = failure]
            ELSE [st EXCEPT !.letters = [p \in DOMAIN st.letters |-> st.letters[p] \ {letter}],
                            !.l_bound = TRUE,
                            !.applied = @ + 1]
        ELSE IF i > Len(st.letters) THEN
            [st EXCEPT !.raised = "IndexError"]
        ELSE IF status = PartialMatch THEN
            [st EXCEPT !.letters[i] = @ \ {letter},
                       !.correct_letters = @ \cup {letter},
                       !.applied = @ + 1]
        ELSE IF status = Correct THEN
            IF letter \notin st.letters[i]
            THEN [st EXCEPT !.raised = failure]
            ELSE [st EXCEPT !.letters[i] = {letter},
                            !.correct_letters = @ \cup {letter},
                            !.applied = @ + 1]
        ELSE [st EXCEPT !.applied = @ + 1]

RECURSIVE add_clue_from(_, _, _)
add_clue_from(st, c, i) ==
    IF i > Len(c) \/ st.raised # "none" THEN st
    ELSE add_clue_from(add_tuple(st, i, c[i]), c, i + 1)

\* WordleState.add_clue: the state it leaves (also when it raises part-way),
\* the exception and the number of tuples applied.
add_clue(ls, cl, c) ==
    add_clue_from([letters |-> ls, correct_letters |-> cl, raised |-> "none",
                   l_bound |-> FALSE, applied |-> 0], c, 1)

matches_positions_only(ls, cl, w) ==
    /\ Len(w) = Len(ls)
    /\ \A i \in DOMAIN w : w[i] \in ls[i]

\* WordleState.matches
matches(ls, cl, w) ==
    /\ Len(w) = Len(ls)
    /\ \A letter \in cl : letter \in Range(w)
    /\ \A i \in DOMAIN w : w[i] \in ls[i]

state_is_solved_any(ls) == \E i \in DOMAIN ls : Cardinality(ls[i]) = 1

\* WordleState.is_solved
state_is_solved(ls) == \A i \in DOMAIN ls : Cardinality(ls[i]) = 1

\* WordleState.is_impossible
state_is_impossible(ls) == \E i \in DOMAIN ls : Cardinality(ls[i]) = 0

(***************************************************************************)
(* entropy                                                                 *)
(***************************************************************************)
RECURSIVE Power(_, _)
Power(b, e) == IF e = 0 THEN 1 ELSE b * Power(b, e - 1)

RECURSIVE Product(_, _)
Product(f, S) ==
    IF S = {} THEN 1
    ELSE LET x == CHOOSE y \in S : TRUE IN f[x] * Product(f, S \ {x})

\* The number of words of the pool behind each clue of entropy's clue_probs.
clue_counts(g, ws) ==
    [c \in {get_clue(w, g) : w \in ws} |-> Cardinality({w \in ws : get_clue(w, g) = c})]

\* Python's floats are IEEE 754 doubles: a positive one is kept as m, its
\* Precision significand bits (most significant first, m[1] = 1), and x, the
\* power of two that m[1] weighs.
Precision == 53

Zeros(n) == [j \in 1..n |-> 0]

RECURSIVE Pow2(_)
Pow2(s) == IF s = 0 THEN 1 ELSE 2 * Pow2(s - 1)

\* The least s with 2^s >= N.
Log2Up(N) == CHOOSE s \in 0..30 : Pow2(s) >= N /\ (s = 0 \/ Pow2(s - 1) < N)

\* 2^j mod N for j < 65, through numbers no larger than N^4 and 8192 * N.
Pow2Mod(j, N) ==
    LET high == Pow2(13) % N
        a == j \div 13
        ha == IF a = 0 THEN 1 ELSE IF a = 1 THEN high ELSE IF a = 2 THEN high * high
              ELSE IF a = 3 THEN high * high * high ELSE high * high * high * high
    IN  ((ha % N) * Pow2(j % 13)) % N

\* a + b for two bit strings of one length: one bit longer, the carry out in
\* front.
add_bits(a, b) ==
    LET L == Len(a)
        carry(i) == \E k \in (i + 1)..L :
                        /\ a[k] + b[k] = 2
                        /\ \A j \in (i + 1)..(k - 1) : a[j] + b[j] = 1
        bit(i) == IF carry(i) THEN 1 ELSE 0
    IN  [i \in 1..(L + 1) |-> IF i = 1 THEN bit(0) ELSE (a[i - 1] + b[i - 1] + bit(i - 1)) % 2]

\* The bit string bits (leading bit 1, weighing 2^x) cut to Precision bits,
\* and one unit in the last place added if up.
float_round(bits, x, up) ==
    LET keep == SubSeq(bits, 1, Precision)
        ones(i) == \A j \in (i + 1)..Precision : keep[j] = 1
    IN  IF ~up THEN [m |-> keep, x |-> x]
        ELSE IF ones(0) THEN [m |-> <<1>> \o Zeros(Precision - 1), x |-> x + 1]
        ELSE [m |-> [i \in 1..Precision |-> IF ones(i) THEN 1 - keep[i] ELSE keep[i]], x |-> x]

\* 1.0 / N, correctly rounded (to nearest, ties to even): the binary long
\* division of 1 by N.
float_recip(N) ==
    LET s == Log2Up(N)
        r0 == Pow2(s) - N
        rem(j) == (r0 * Pow2Mod(j, N)) % N
        bits == [j \in 1..Precision |-> IF j = 1 THEN 1 ELSE IF 2 * rem(j - 2) >= N THEN 1 ELSE 0]
        last == rem(Precision - 1)
    IN  float_round(bits, -s, 2 * last > N \/ (2 * last = N /\ bits[Precision] = 1))

\* a + b for floats a >= b > 0, correctly rounded.
float_add(a, b) ==
    LET d == a.x - b.x
        sum == add_bits(a.m \o Zeros(d), Zeros(d) \o b.m)
        bits == IF sum[1] = 1 THEN sum ELSE Tail(sum)
        x == IF sum[1] = 1 THEN a.x + 1 ELSE a.x
        guard == Len(bits) > Precision /\ bits[Precision + 1] = 1
        sticky == \E j \in (Precision + 2)..Len(bits) : bits[j] = 1
    IN  float_round(bits, x, guard /\ (sticky \/ bits[Precision] = 1))

\* clue_probs[clue] after k words have produced the clue: prob, then k - 1
\* times += prob.
RECURSIVE float_sum(_, _)
float_sum(prob, k) == IF k = 1 THEN prob ELSE float_add(float_sum(prob, k - 1), prob)

\* prob_sums[N][k]: that value for prob = 1.0 / N, for every pool size N the
\* specifications reach.
prob_sums ==
    [N \in 1..Cardinality(PoolWords) |-> [k \in 1..N |-> float_sum(float_recip(N), k)]]

\* clue_probs of entropy(guess, words) when its first loop ends.
clue_probs(g, ws) ==
    LET counts == clue_counts(g, ws)
    IN  [c \in DOMAIN counts |-> prob_sums[Cardinality(ws)][counts[c]]]

\* The sign of a float p against 1.0: -1 below, 0 equal, 1 above.
float_cmp_one(p) ==
    IF p.x < 0 THEN -1
    ELSE IF p.x = 0 /\ \A j \in 2..Precision : p.m[j] = 0 THEN 0
    ELSE 1

\* The sign of what entropy returns.  np.log(p) has the sign of p against
\* 1.0, so each step entropy -= p * np.log(p) adds a term of the opposite
\* sign, and a sum of terms none of which is negative (positive) has their
\* sign.  Terms of both signs do not meet: only a clue that every word
\* produces has a probability that reaches 1.0.
entropy_sign(g, ws) ==
    LET probs == clue_probs(g, ws)
        terms == {-float_cmp_one(probs[c]) : c \in DOMAIN probs}
    IN  IF terms \subseteq {0} THEN 0
        ELSE IF terms \subseteq {0, 1} THEN 1
        ELSE -1

\* entropy(guess, words) for a non-empty pool of N words.  With class sizes
\* n_c the sum  -SUM (n_c/N) ln(n_c/N)  is  ln(num/den) / n  for num = N^N
\* and den = PRODUCT n_c^n_c: the score is kept as that triple, which is what
\* scores are compared by (the rounding of the magnitude is not modelled),
\* and as the sign of the float the code returns.
entropy(g, ws) ==
    LET counts == clue_counts(g, ws)
        N == Cardinality(ws)
    IN  [num |-> Power(N, N),
         den |-> Product([c \in DOMAIN counts |-> Power(counts[c], counts[c])], DOMAIN counts),
         n |-> N,
         sign |-> entropy_sign(g, ws)]

\* -np.inf, next_guess's initial highest_entropy: ln(0/1).
MinusInf == [num |-> 0, den |-> 1, n |-> 1, sign |-> -1]

\* e1 > e2 for two scores over the same pool (the same n), or against -inf.
entropy_greater(e1, e2) == e1.num * e2.den > e2.num * e1.den

(***************************************************************************)
(* WordleSolver                                                            *)
(***************************************************************************)
NoWord == <<>>   \* the empty string ""

RECURSIVE best_from_last(_, _, _, _, _)
best_from_last(gs, ws, i, best_guess, highest_entropy) ==
    IF i > Len(gs) THEN best_guess
    ELSE LET word_entropy == entropy(gs[i], ws)
         IN  IF ~entropy_greater(highest_entropy, word_entropy)
             THEN best_from_last(gs, ws, i + 1, gs[i], word_entropy)
             ELSE best_from_last(gs, ws, i + 1, best_guess, highest_entropy)

\* The for loop of next_guess over the guesses in enumeration order gs, from
\* index i on, with the running best_guess and highest_entropy.
RECURSIVE best_from(_, _, _, _, _)
best_from(gs, ws, i, best_guess, highest_entropy) ==
    IF i > Len(gs) THEN best_guess
    ELSE LET word_entropy == entropy(gs[i], ws)
         IN  IF entropy_greater(word_entropy, highest_entropy)
             THEN best_from(gs, ws, i + 1, gs[i], word_entropy)
             ELSE best_from(gs, ws, i + 1, best_guess, highest_entropy)

next_guess_always_scores(ws, gs) ==
    IF Len(gs) = 0
    THEN [guess |-> NoWord, raised |-> "none", calls |-> 0]
    ELSE IF ws = {}
    THEN [guess |-> NoWord, raised |-> "ZeroDivisionError", calls |-> 1]
    ELSE [guess |-> best_from(gs, ws, 1, NoWord, MinusInf), raised |-> "none",
          calls |-> Len(gs)]

\* WordleSolver.next_guess, gs being the enumeration of the guess universe
\* (total_word_set, or the pool): the guess returned, the exception raised
\* (entropy divides by len(words)) and the number of entropy() calls started.
next_guess(ws, gs) ==
    IF Cardinality(ws) = 1
    THEN [guess |-> CHOOSE w \in ws : TRUE, raised |-> "none", calls |-> 0]
    ELSE IF Len(gs) = 0
    THEN [guess |-> NoWord, raised |-> "none", calls |-> 0]
    ELSE IF ws = {}
    THEN [guess |-> NoWord, raised |-> "ZeroDivisionError", calls |-> 1]
    ELSE [guess |-> best_from(gs, ws, 1, NoWord, MinusInf), raised |-> "none",
          calls |-> Len(gs)]

\* The enumerations next_guess may walk: the list total_word_set as it is, or
\* the set words in any order.
guess_orders(gaw, total, ws) == IF gaw THEN {total} ELSE Perms(ws)

update_words_from_lexicon(ls, cl, ws) == {w \in all_candidate_words(Lexicon) : matches(ls, cl, w)}

\* WordleSolver.update_words
update_words(ls, cl, ws) == {w \in ws : matches(ls, cl, w)}

\* WordleSolver.is_impossible
is_impossible(ls, ws) == ws = {} \/ state_is_impossible(ls)

\* WordleSolver.is_solved
is_solved(ls) == state_is_solved(ls)

(***************************************************************************)
(* Spec: a session of solve (batch) or solve_interactive                   *)
(***************************************************************************)
Opener == slate

\* The dictionaries tried: up to MaxDict words of the lexicon, at least one
\* of them a candidate word.
Dictionaries ==
    {E \in SUBSET Lexicon : all_candidate_words(E) # {} /\ Cardinality(E) <= MaxDict}

\* The status strings tried as arbitrary input: one status everywhere, but
\* for at most one position.
FreePatterns ==
    {f \in [1..WordLen -> TileStatus] :
        \E base \in TileStatus : Cardinality({i \in 1..WordLen : f[i] # base}) <= 1}

\* The clues the prompt can return for a guess: one status per letter.
all_clues(g) == {[i \in 1..Len(g) |-> <<g[i], f[i]>>] : f \in FreePatterns}

\* get_clue_from_user: what comes back for a guess.
user_clues(g) == IF user = "honest" THEN {get_clue(word, g)} ELSE all_clues(g)

SessionInit(E) ==
    /\ english_words_lower_set = E
    /\ total_word_set \in Perms(all_candidate_words(E))
    /\ words = all_candidate_words(E)
    /\ letters = NewState.letters
    /\ correct_letters = NewState.correct_letters
    /\ guess = Opener
    /\ iteration = 0
    /\ outcome = "Active"
    /\ clue = <<>>
    /\ raised = "none"
    /\ applied = 0
    /\ words_before = all_candidate_words(E)
    /\ order = <<>>
    /\ entropy_calls = 0
    /\ solution = NoWord
    /\ ever_incorrect = {}
    /\ clues_seen = {}
    /\ result = <<>>

Init ==
    /\ \E E \in Dictionaries : SessionInit(E)
    /\ \/ /\ mode = "batch"
          /\ guess_all_words \in BOOLEAN
          /\ word \in Lexicon
          /\ user = "honest"
          /\ pc = "start"
       \/ /\ mode = "interactive"
          /\ guess_all_words = FALSE
          /\ \/ user = "honest" /\ word \in {w \in Lexicon : Len(w) = WordLen}
             \/ user = "any" /\ word = NoWord
          /\ pc = "loop"

static == <<mode, guess_all_words, english_words_lower_set, word, user, total_word_set,
            result>>

\* solve, line 200: the target must be in the dictionary.
SolveStart ==
    /\ mode = "batch" /\ pc = "start"
    /\ IF word \in english_words_lower_set
       THEN pc' = "loop" /\ outcome' = outcome
       ELSE pc' = "done" /\ outcome' = "AssertionError"
    /\ UNCHANGED <<static, words, letters, correct_letters, guess, iteration, clue, raised,
                   applied, words_before, order, entropy_calls, solution, ever_incorrect,
                   clues_seen>>

\* add_clue(c) then update_words(), as both loops call them.
ApplyClue(c) ==
    LET r == add_clue(letters, correct_letters, c)
    IN  /\ clue' = c
        /\ letters' = r.letters
        /\ correct_letters' = r.correct_letters
        /\ raised' = r.raised
        /\ applied' = r.applied
        /\ words_before' = words
        /\ words' = IF r.raised = "none"
                    THEN update_words(r.letters, r.correct_letters, words)
                    ELSE words
        /\ ever_incorrect' = ever_incorrect \cup
                               {c[i][1] : i \in {j \in 1..r.applied : c[j][2] = Incorrect}}
        /\ clues_seen' = IF r.raised = "none" THEN clues_seen \cup {c} ELSE clues_seen

\* solve, lines 206-217: the loop test and one pass up to next_guess.
SolvePass ==
    /\ mode = "batch" /\ pc = "loop"
    /\ ~is_solved(letters)
    /\ iteration' = iteration + 1
    /\ entropy_calls' = 0
    /\ IF get_clue_raises(word, guess)
       THEN /\ pc' = "done" /\ outcome' = "AssertionError"
            /\ UNCHANGED <<words, letters, correct_letters, clue, raised, applied,
                           words_before, ever_incorrect, clues_seen>>
       ELSE /\ ApplyClue(get_clue(word, guess))
            /\ IF raised' # "none"
               THEN pc' = "done" /\ outcome' = raised'
               ELSE pc' = "next" /\ outcome' = outcome
    /\ UNCHANGED <<static, guess, order, solution>>

\* solve, lines 206 and 220: the loop ends, iteration is returned.
SolveReturn ==
    /\ mode = "batch" /\ pc = "loop"
    /\ is_solved(letters)
    /\ pc' = "done" /\ outcome' = "Solved"
    /\ entropy_calls' = 0
    /\ UNCHANGED <<static, words, letters, correct_letters, guess, iteration, clue, raised,
                   applied, words_before, order, solution, ever_incorrect, clues_seen>>

\* guess = solver.next_guess(), lines 197 and 218.
NextGuess ==
    /\ pc = "next"
    /\ \E gs \in guess_orders(guess_all_words, total_word_set, words) :
         LET r == next_guess(words, gs)
         IN  /\ order' = gs
             /\ entropy_calls' = r.calls
             /\ IF r.raised # "none"
                THEN pc' = "done" /\ outcome' = r.raised /\ guess' = guess
                ELSE pc' = "loop" /\ outcome' = outcome /\ guess' = r.guess
    /\ UNCHANGED <<static, words, letters, correct_letters, iteration, clue, raised,
                   applied, words_before, solution, ever_incorrect, clues_seen>>

\* solve_interactive, lines 186-195: one pass up to next_guess.
InteractivePass ==
    /\ mode = "interactive" /\ pc = "loop"
    /\ \E c \in user_clues(guess) :
         /\ ApplyClue(c)
         /\ IF raised' # "none"
            THEN /\ pc' = "done" /\ outcome' = raised'
                 /\ UNCHANGED <<order, entropy_calls, solution>>
            ELSE IF is_solved(letters')
            THEN \E gs \in guess_orders(guess_all_words, total_word_set, words') :
                   LET r == next_guess(words', gs)
                   IN  /\ order' = gs
                       /\ entropy_calls' = r.calls
                       /\ solution' = r.guess
                       /\ pc' = "done"
                       /\ outcome' = IF r.raised # "none" THEN r.raised ELSE "Solved"
            ELSE IF is_impossible(letters', words')
            THEN /\ pc' = "done" /\ outcome' = "Impossible"
                 /\ entropy_calls' = 0
                 /\ UNCHANGED <<order, solution>>
            ELSE /\ pc' = "next" /\ outcome' = outcome
                 /\ entropy_calls' = 0
                 /\ UNCHANGED <<order, solution>>
    /\ UNCHANGED <<static, guess, iteration>>

Next == SolveStart \/ SolvePass \/ SolveReturn \/ NextGuess \/ InteractivePass

Spec == Init /\ [][Next]_vars

(***************************************************************************)
(* SpecState: a WordleState under add_clue calls with arbitrary clues      *)
(***************************************************************************)
\* The guesses whose letters the free clues carry; tests repeats two letters.
FreeGuesses == {slate, tests}

\* The clues tried: the free patterns on each of these guesses, and the clues
\* the lexicon's words produce for them and for share.
FreeClues ==
    UNION {all_clues(g) : g \in FreeGuesses}
        \cup {get_clue(w, g) : w \in all_candidate_words(Lexicon), g \in FreeGuesses \cup {share}}

\* The solver's variables, unused outside Spec.
NoSession ==
    /\ guess_all_words = FALSE
    /\ english_words_lower_set = {}
    /\ user = "any"
    /\ total_word_set = <<>>
    /\ outcome = "Active"
    /\ order = <<>>
    /\ entropy_calls = 0
    /\ solution = NoWord

session == <<guess_all_words, english_words_lower_set, user, total_word_set, outcome, order,
             entropy_calls, solution>>

InitState ==
    /\ mode = "state"
    /\ NoSession
    /\ word = NoWord
    /\ words = all_candidate_words(Lexicon)
    /\ letters = NewState.letters
    /\ correct_letters = NewState.correct_letters
    /\ guess = NoWord
    /\ iteration = 0
    /\ pc = "loop"
    /\ clue = <<>>
    /\ raised = "none"
    /\ applied = 0
    /\ words_before = all_candidate_words(Lexicon)
    /\ ever_incorrect = {}
    /\ clues_seen = {}
    /\ result = <<>>

\* state.add_clue(c) for any clue c, then update_words() on a pool of the
\* lexicon's words if the call did not fail; a caller may go on after an
\* exception.
AddClueCall ==
    /\ iteration < MaxClues
    /\ \E c \in FreeClues : ApplyClue(c)
    /\ iteration' = iteration + 1
    /\ UNCHANGED <<mode, session, word, guess, pc, result>>

NextState == AddClueCall

SpecState == InitState /\ [][NextState]_vars

(***************************************************************************)
(* SpecSound: a WordleState fed get_clue(word, g) for guesses g            *)
(***************************************************************************)
InitSound ==
    /\ mode = "sound"
    /\ NoSession
    /\ word \in SampleWords
    /\ words = all_candidate_words(Lexicon)
    /\ letters = NewState.letters
    /\ correct_letters = NewState.correct_letters
    /\ guess = NoWord
    /\ iteration = 0
    /\ pc = "loop"
    /\ clue = <<>>
    /\ raised = "none"
    /\ applied = 0
    /\ words_before = all_candidate_words(Lexicon)
    /\ ever_incorrect = {}
    /\ clues_seen = {}
    /\ result = <<>>

\* add_clue(get_clue(word, g)) then update_words(), for any guess g of the
\* solution's length.
SoundGuess ==
    /\ iteration < MaxGuesses
    /\ raised = "none"
    /\ \E g \in {w \in SampleWords : ~get_clue_raises(word, w)} :
         /\ guess' = g
         /\ ApplyClue(get_clue(word, g))
    /\ iteration' = iteration + 1
    /\ UNCHANGED <<mode, session, word, pc, result>>

NextSound == SoundGuess

SpecSound == InitSound /\ [][NextSound]_vars

(***************************************************************************)
(* SpecPure: get_clue and entropy on drawn inputs                          *)
(***************************************************************************)
InitPure ==
    /\ mode = "pure"
    /\ NoSession
    /\ word \in SampleWords
    /\ guess \in GuessWords
    /\ words \in SUBSET PoolWords
    /\ letters = NewState.letters
    /\ correct_letters = NewState.correct_letters
    /\ iteration = 0
    /\ pc = "start"
    /\ clue = <<>>
    /\ raised = "none"
    /\ applied = 0
    /\ words_before = {}
    /\ ever_incorrect = {}
    /\ clues_seen = {}
    /\ result = <<>>

pure_frame == <<mode, session, word, guess, words, letters, correct_letters, iteration, clue,
                applied, words_before, ever_incorrect, clues_seen>>

\* get_clue(word, guess)
CallGetClue ==
    /\ pc = "start"
    /\ pc' = "get_clue"
    /\ IF get_clue_raises(word, guess)
       THEN raised' = "AssertionError" /\ result' = <<>>
       ELSE raised' = "none" /\ result' = get_clue(word, guess)
    /\ UNCHANGED pure_frame

\* entropy(guess, words)
CallEntropy ==
    /\ pc = "start"
    /\ pc' = "entropy"
    /\ IF words = {}
       THEN raised' = "ZeroDivisionError" /\ result' = <<>>
       ELSE IF \E w \in words : get_clue_raises(w, guess)
       THEN raised' = "AssertionError" /\ result' = <<>>
       ELSE raised' = "none" /\ result' = entropy(guess, words)
    /\ UNCHANGED pure_frame

NextPure == CallGetClue \/ CallEntropy

SpecPure == InitPure /\ [][NextPure]_vars

(***************************************************************************)
(* Claims                                                                  *)
(***************************************************************************)
TotalWordSet == Range(total_word_set)

\* A word of WordLen lowercase letters, as all_candidate_words keeps them.
IsCandidate(w) == w \in all_candidate_words({w})

\* C1 as stated: for every solution and every sequence of guesses of the
\* solution's length, add_clue(get_clue(solution, guess)) never raises, the
\* solution matches the state after every application, and update_words keeps
\* a solution that is in the pool.
C1_AnySolutionSound ==
    (mode = "sound" /\ iteration >= 1) =>
        /\ raised = "none"
        /\ matches(letters, correct_letters, word)
        /\ (word \in words_before => word \in words)

\* C1 amended: the same for every solution of WordLen lowercase letters.
C1_Soundness ==
    (mode = "sound" /\ iteration >= 1 /\ IsCandidate(word)) =>
        /\ raised = "none"
        /\ matches(letters, correct_letters, word)
        /\ (word \in words_before => word \in words)

\* Two guesses other than the solution, with Incorrect, PartialMatch and
\* Correct tiles among them, have narrowed the pool to the solution.
C1_Witness ==
    /\ mode = "sound" /\ iteration >= 2
    /\ word = share /\ guess # word
    /\ ever_incorrect # {} /\ correct_letters # {}
    /\ \E i \in DOMAIN letters : word[i] \in correct_letters /\ Cardinality(letters[i]) > 1
    /\ words = {word}

\* C2: in batch mode with the target in total_word_set, under either
\* guess_all_words setting, the session raises nothing and is done only as
\* Solved with the pool {target}; every pass after the opener's that starts
\* with 2 or more words strictly shrinks the pool, and the passes number at
\* most |total_word_set|, plus one when the opener is not in total_word_set
\* (at most 3 for the dictionary {slate, stare, share}).  Every step of a
\* session is enabled at its program point, so the bound on the passes is
\* the loop's termination.
C2_BatchTerminates ==
    (mode = "batch" /\ word \in TotalWordSet) =>
        /\ outcome \in {"Active", "Solved"}
        /\ (pc = "done" => outcome = "Solved" /\ words = {word})
        /\ (iteration >= 2 /\ Cardinality(words_before) >= 2 =>
                words \subseteq words_before /\ words # words_before)
        /\ iteration <= Len(total_word_set) + (IF Opener \in TotalWordSet THEN 0 ELSE 1)
        /\ (english_words_lower_set = {slate, stare, share} => iteration <= 3)

\* A solve over three words without the opener, guessing from the whole
\* dictionary, that needed all four passes.
C2_Witness ==
    /\ mode = "batch" /\ guess_all_words /\ word \in TotalWordSet
    /\ Len(total_word_set) = 3 /\ Opener \notin TotalWordSet
    /\ pc = "done" /\ outcome = "Solved" /\ words = {word}
    /\ iteration = 4

\* C3 as stated: once a clue has been applied and the pool re-filtered, an
\* empty pool or an empty position set ends the session as Impossible, before
\* the solved check: no session is Solved, or names a solution, with the pool
\* empty.
C3_ImpossibleFirst ==
    /\ (clue # <<>> /\ raised = "none" /\ is_impossible(letters, words)) =>
            (pc = "done" /\ outcome = "Impossible")
    /\ (outcome = "Solved" => words # {})

\* C4 as stated: a session fed the get_clue clues of a hidden word that is not
\* in total_word_set ends as Impossible with an empty pool, not as Solved and
\* not with an exception.
C4_HiddenWordImpossible ==
    (/\ mode \in {"batch", "interactive"} /\ user = "honest"
     /\ word \notin TotalWordSet
     /\ clue # <<>> /\ pc = "done") =>
        (outcome = "Impossible" /\ words = {})

\* C5 as stated: whenever a step of a session has called entropy(guess,
\* words), words is not empty.
C5_EntropyPoolNonEmpty ==
    (mode \in {"batch", "interactive"} /\ entropy_calls > 0) => words # {}

\* The tuple at position j of clue c contradicts what is known before the
\* call or what the clue's earlier tuples say.
Contradicts(c, j) ==
    LET x == c[j][1]
        earlier(S) == \E k \in 1..(j - 1) : c[k][1] = x /\ c[k][2] \in S
    IN  \/ /\ c[j][2] = Incorrect
           /\ x \in correct_letters \/ earlier({Correct, PartialMatch})
        \/ /\ c[j][2] = Correct
           /\ x \notin letters[j] \/ x \in ever_incorrect \/ earlier({Incorrect})

\* C6: add_clue fails on a contradiction.  A tuple (x, Incorrect) with x in
\* correct_letters, or marked Correct or PartialMatch before, and a tuple
\* (x, Correct) at a position whose set has lost x, or with x marked Incorrect
\* before, is never applied: the call raises at that tuple or earlier.
C6_ContradictionFails ==
    [][mode = "state" =>
        /\ (raised' = "none" <=> applied' = Len(clue'))
        /\ \A j \in DOMAIN clue' :
              Contradicts(clue', j) =>
                  applied' < j /\ raised' \in {"AssertionError", "UnboundLocalError"}]_vars

\* A second clue marked Correct a letter that the first clue had marked
\* Incorrect, and add_clue raised at that tuple.
C6_Witness ==
    /\ mode = "state" /\ iteration = 2
    /\ raised # "none" /\ applied < Len(clue)
    /\ clue[applied + 1][2] = Correct
    /\ clue[applied + 1][1] \in ever_incorrect
    /\ \A k \in 1..applied : clue[k][1] # clue[applied + 1][1]

\* C7 as stated: once is_solved() holds it holds after every later add_clue
\* call that does not fail, whatever the clue.
C7_SolvedStays ==
    [][(mode = "state" /\ state_is_solved(letters) /\ raised' = "none") =>
            state_is_solved(letters')]_vars

\* C8: get_clue(word, guess) carries guess[i] at position i, Correct iff
\* guess[i] = word[i], PartialMatch iff guess[i] # word[i] and guess[i]
\* occurs in word, Incorrect iff guess[i] does not occur in word.
C8_GetClue ==
    (mode = "pure" /\ pc = "get_clue" /\ raised = "none") =>
        /\ Len(result) = Len(guess)
        /\ \A i \in DOMAIN guess :
              /\ result[i][1] = guess[i]
              /\ result[i][2] \in TileStatus
              /\ result[i][2] = Correct <=> guess[i] = word[i]
              /\ result[i][2] = PartialMatch <=>
                    (guess[i] # word[i] /\ \E j \in DOMAIN word : word[j] = guess[i])
              /\ result[i][2] = Incorrect <=> (\A j \in DOMAIN word : word[j] # guess[i])

\* share has one e; all three e's of eerie are marked, two PartialMatch and
\* one Correct.
C8_Witness ==
    /\ mode = "pure" /\ pc = "get_clue" /\ raised = "none"
    /\ word = share /\ guess = eerie
    /\ result[1][2] = PartialMatch /\ result[2][2] = PartialMatch
    /\ result[4][2] = Incorrect /\ result[5][2] = Correct

\* C9: next_guess over a pool of 2 or more words enumerates the configured
\* guess universe (total_word_set under guess_all_words, else the pool) and
\* returns the first word of the enumeration whose entropy over the pool no
\* other word's exceeds.
C9_NextGuessMaximal ==
    (mode \in {"batch", "interactive"} /\ entropy_calls > 0 /\ Cardinality(words) >= 2) =>
        /\ Range(order) = (IF guess_all_words THEN TotalWordSet ELSE words)
        /\ \E k \in DOMAIN order :
              /\ guess = order[k]
              /\ \A j \in DOMAIN order :
                    ~entropy_greater(entropy(order[j], words), entropy(guess, words))
              /\ \A j \in 1..(k - 1) :
                    entropy_greater(entropy(guess, words), entropy(order[j], words))

\* next_guess passed over a lower-scored word, returned the second of the
\* enumeration and left a later word of the same score.
C9_Witness ==
    /\ mode = "batch" /\ entropy_calls > 0 /\ Cardinality(words) >= 3
    /\ guess = order[2]
    /\ entropy_greater(entropy(guess, words), entropy(order[1], words))
    /\ ~entropy_greater(entropy(guess, words), entropy(order[3], words))

\* C10: with exactly one word in the pool next_guess returns that word and
\* calls entropy not once, under either guess_all_words setting, both where
\* the loops ask for the next guess and where solve_interactive asks for the
\* solution.
C10_SingleWord ==
    [][/\ (mode \in {"batch", "interactive"} /\ pc = "next" /\ Cardinality(words) = 1) =>
              (pc' = "loop" /\ guess' \in words /\ entropy_calls' = 0)
       /\ (mode = "interactive" /\ pc = "loop" /\ outcome' = "Solved"
             /\ Cardinality(words') = 1) =>
              (solution' \in words' /\ entropy_calls' = 0)]_vars

\* next_guess has returned the pool's only word while guessing from a
\* dictionary of three words.
C10_Witness ==
    /\ mode = "batch" /\ guess_all_words /\ Len(total_word_set) >= 3
    /\ pc = "loop" /\ clue # <<>>
    /\ Cardinality(words) = 1 /\ guess \in words
    /\ guess # total_word_set[1]
    /\ entropy_calls = 0
    /\ ~is_solved(letters)

\* C11: the candidate pool never regrows.  In a session the pool is a subset
\* of total_word_set before and after every step, and every step, the
\* add_clue + update_words pass among them, leaves a subset of the pool it
\* found (so the size does not increase).
C11_PoolNeverRegrows ==
    [][(mode \in {"batch", "interactive"}) =>
        (/\ words \subseteq TotalWordSet
         /\ words' \subseteq words
         /\ words' \subseteq TotalWordSet
         /\ Cardinality(words') <= Cardinality(words))]_vars

\* A second pass has removed some words of a pool of three and kept others.
C11_Witness ==
    /\ mode \in {"batch", "interactive"}
    /\ raised = "none"
    /\ Cardinality(words_before) = 3
    /\ words # {} /\ words # words_before /\ words \subseteq words_before
    /\ guess # Opener

\* C12: each position's set of permissible letters only shrinks.  After any
\* add_clue call, complete or failed part-way through the clue, there are the
\* same positions and every position's set is a subset of what it was before
\* the call.
C12_LettersOnlyShrink ==
    [][(mode = "state") =>
        (/\ DOMAIN letters' = DOMAIN letters
         /\ \A i \in DOMAIN letters : letters'[i] \subseteq letters[i])]_vars

\* A first add_clue call applied some tuples, a Correct one among them, then
\* failed: the sets it had narrowed stay narrowed.
C12_Witness ==
    /\ mode = "state" /\ iteration = 1
    /\ raised # "none" /\ applied >= 1
    /\ \E i \in DOMAIN letters : Cardinality(letters[i]) = 1
    /\ \E i \in DOMAIN letters : Cardinality(letters[i]) = 25

\* C13 as stated: for every guess and every non-empty pool the score entropy
\* returns is not negative, and it is 0 iff every word of the pool produces
\* the same clue against the guess.
C13_EntropyNonNegative ==
    (mode = "pure" /\ pc = "entropy" /\ raised = "none") =>
        /\ result.sign >= 0
        /\ result.sign = 0 <=> Cardinality(DOMAIN clue_counts(guess, words)) = 1

\* C14 as stated: when solve returns, the value returned is the number of
\* guesses for which a clue was applied, and the last of these guesses is the
\* target word.
C14_ReturnsAfterGuessingTarget ==
    (mode = "batch" /\ pc = "done" /\ outcome = "Solved") =>
        /\ iteration = Cardinality(clues_seen)
        /\ Len(clue) = Len(word)
        /\ \A i \in DOMAIN clue : clue[i][1] = word[i]

\* The letters the tuples of clue c at the positions S mark Incorrect.
MarkedIncorrect(c, S) == {c[j][1] : j \in {k \in S \cap DOMAIN c : c[k][2] = Incorrect}}

\* What position p's set ls is after the first n tuples of clue c have had the
\* effects C15 names, in clue order: the Incorrect tuples before p, tuple p
\* itself, the Incorrect tuples after p.
ExpectedLetters(ls, c, n, p) ==
    LET before == ls \ MarkedIncorrect(c, 1..(p - 1) \cap 1..n)
        at == IF p > n THEN before
              ELSE IF c[p][2] = Correct THEN {c[p][1]}
              ELSE before \ {c[p][1]}
    IN  at \ MarkedIncorrect(c, (p + 1)..n)

\* C15: each tuple add_clue accepts has exactly its effect, in clue order.
\* Correct at position i leaves {letter} there and touches no other position,
\* PartialMatch at i removes the letter at i only, Incorrect removes it
\* everywhere; Correct and PartialMatch add the letter to correct_letters and
\* Incorrect leaves correct_letters alone.  After every add_clue call the
\* state is the one these effects of the applied tuples give, and nothing
\* else has changed.
C15_TupleEffects ==
    [][(mode = "state") =>
        (/\ letters' = [p \in DOMAIN letters |->
                            ExpectedLetters(letters[p], clue', applied', p)]
         /\ correct_letters' = correct_letters \cup
                {clue'[j][1] : j \in {k \in 1..applied' : clue'[k][2] # Incorrect}})]_vars

\* Two clues have been applied in full, with tuples of all three statuses
\* among them: one position holds a single letter, another has lost letters
\* and kept others.
C15_Witness ==
    /\ mode = "state" /\ iteration = 2 /\ raised = "none"
    /\ Cardinality(clues_seen) = 2
    /\ {c[j][2] : c \in clues_seen, j \in 1..WordLen} = TileStatus
    /\ \E p \in DOMAIN letters : Cardinality(letters[p]) = 1
    /\ \E p \in DOMAIN letters : Cardinality(letters[p]) \in 2..25
    /\ correct_letters # {} /\ ever_incorrect # {}

\* The guess a clue was produced for: its letters.
GuessOf(c) == [i \in DOMAIN c |-> c[i][1]]

\* The words the filter is tried on: the sample words of WordLen lowercase
\* letters and every word of WordLen letters over s, a and e.
ProbeWords ==
    all_candidate_words(SampleWords \cup PoolWords \cup {shark, fuzzy})
        \cup [1..WordLen -> {"s", "a", "e"}]

\* w would have produced every clue applied so far.
ProducesClues(w) == \A c \in clues_seen : get_clue(w, GuessOf(c)) = c

\* C16: the filter is exact.  After the clues that get_clue produces for
\* guesses of WordLen letters against one solution have been applied to a
\* fresh state, matches(w) holds for a word w of WordLen lowercase letters
\* iff get_clue(w, g) is the clue applied for every guess g made, and the
\* pool is the set of its initial words that would have produced all these
\* clues.
C16_FilterExact ==
    (mode = "sound" /\ raised = "none" /\ Len(word) = WordLen) =>
        /\ \A w \in ProbeWords : matches(letters, correct_letters, w) <=> ProducesClues(w)
        /\ words = {w \in all_candidate_words(Lexicon) : ProducesClues(w)}

\* After two guesses some word other than the solution still matches, and a
\* word that every position's set admits does not, for want of a letter
\* marked PartialMatch.
C16_Witness ==
    /\ mode = "sound" /\ raised = "none" /\ iteration >= 2 /\ word = share
    /\ Cardinality(clues_seen) = 2
    /\ \E w \in ProbeWords \ {word} : matches(letters, correct_letters, w)
    /\ \E w \in ProbeWords :
          /\ \A i \in DOMAIN w : w[i] \in letters[i]
          /\ ~matches(letters, correct_letters, w)
          /\ ~ProducesClues(w)

\* The pool a solver starts from: set(total_word_set) in a session, the
\* lexicon's candidate words where a state is driven on its own.
InitialPool ==
    IF mode \in {"batch", "interactive"} THEN TotalWordSet ELSE all_candidate_words(Lexicon)

\* C17: incremental filtering loses nothing.  After every update_words call,
\* whatever clues were accepted, the pool is the set of the initial pool's
\* words that match the state; and no add_clue call, complete or failed,
\* makes a word match that did not match before.  Stated for a state driven
\* on its own and for the sessions alike.
C17_IncrementalFilter ==
    [][(mode # "pure") =>
        (/\ raised = "none" =>
                words = {w \in InitialPool : matches(letters, correct_letters, w)}
         /\ raised' = "none" =>
                words' = {w \in InitialPool : matches(letters', correct_letters', w)}
         /\ \A w \in InitialPool :
                matches(letters', correct_letters', w) => matches(letters, correct_letters, w))]_vars

\* A second accepted clue has removed words that matched after the first
\* and kept others.
C17_Witness ==
    /\ mode = "state" /\ iteration = 2 /\ raised = "none"
    /\ Cardinality(clues_seen) = 2
    /\ words # {} /\ words # words_before /\ words_before # all_candidate_words(Lexicon)
====
